---- MODULE Spec2Model ----
(***************************************************************************)
(* abuild-reusesig: the signature locator (read_image, read_index,         *)
(* read_signature) and the archive signer (sign_archive) of src/main.rs.   *)
(*                                                                         *)
(* Strings and paths are sequences of one-character strings.  File         *)
(* contents are sequences of items: a raw byte, or one gzip member         *)
(* holding the stream it decompresses to.  A tar stream is a sequence of   *)
(* blocks: an entry (header fields and data), an end-of-archive zero       *)
(* block, or a corrupt header.                                             *)
(***************************************************************************)
EXTENDS Integers, Sequences, FiniteSets, TLC

VARIABLES
    \* ---- locator runs (LocateSpec) ----
    l_pc,          \* "call" | "ret"
    l_cmd,         \* the subcommand with the file it names
    l_res,         \* what read_signature returned
    \* ---- one run of main (Spec) ----
    pc,            \* position in main / sign_archive
    cmd,           \* the subcommand
    files,         \* the filesystem: path -> [exists, bytes, mode]
    files0,        \* the filesystem as it was when the run started
    index_path, output_path,
    env_sde,       \* SOURCE_DATE_EPOCH: [set, val]
    umask,         \* the process umask
    now,           \* the clock the filesystem stamps new files with
    sig_name, sig, \* what read_signature returned
    tmp,           \* the temporary directory: [exists, entries]
    exits,         \* exit status of each pipeline stage
    gzip_out,      \* gzip_out.stdout
    signed_index,  \* the buffer written to output_path
    err,           \* the error main returned ("" while none)
    \* ---- the pipeline at pipe granularity (PipeSpec) ----
    p_pc,          \* the parent's position
    p_tar, p_abuild, p_gzip,   \* each child: [st, buf, status]
    p_pipe1, p_pipe2, p_pipe3, \* blocks buffered in each pipe
    p_read,                    \* blocks the parent has drained from gzip
    p_waited                   \* the stages whose exit status the parent holds

locVars  == <<l_pc, l_cmd, l_res>>
mainVars == <<pc, cmd, files, files0, index_path, output_path, env_sde, umask,
              now, sig_name, sig, tmp, exits, gzip_out, signed_index, err>>
pipeVars == <<p_pc, p_tar, p_abuild, p_gzip, p_pipe1, p_pipe2, p_pipe3, p_read,
              p_waited>>
vars     == <<locVars, mainVars, pipeVars>>

(***************************************************************************)
(* Bounds                                                                  *)
(***************************************************************************)
MaxEntries      == 3   \* blocks in an index stream handed to read_index
MaxImageEntries == 2   \* blocks in an image stream handed to read_image
MaxClock        == 2   \* timestamps run 1..MaxClock
MaxBlocks       == 3   \* blocks tar writes into the pipeline
PipeCap         == 1   \* capacity of each pipe

(***************************************************************************)
(* Strings                                                                 *)
(***************************************************************************)
Range(s) == {s[i] : i \in 1..Len(s)}

SeqsUpTo(S, n) == UNION {[1..k -> S] : k \in 0..n}

\* str::starts_with
StartsWith(s, p) == Len(s) >= Len(p) /\ SubSeq(s, 1, Len(p)) = p

\* A byte that is not valid UTF-8; Path::to_str is None on a path holding one.
BadByte == "\\xff"

\* Path::to_str(): Some exactly for valid UTF-8.
IsUtf8(p) == BadByte \notin Range(p)

SIGN_PREFIX == <<".", "S", "I", "G", "N", ".">>

ARCH_X86    == <<"x", "8", "6", "_", "6", "4">>
ARCH_ARM    == <<"a", "a", "r", "c", "h", "6", "4">>

\* format!("./apks/{}/APKINDEX.tar.gz", arch)
Needle(arch) ==
    <<".", "/", "a", "p", "k", "s", "/">> \o arch \o
    <<"/", "A", "P", "K", "I", "N", "D", "E", "X", ".", "t", "a", "r", ".", "g", "z">>

(***************************************************************************)
(* std::path::Path on Unix: Path == Path compares the component            *)
(* sequences.  Components: a leading "/" is the root; repeated separators  *)
(* and a trailing separator vanish; "." vanishes except as the first       *)
(* component of a relative path; ".." stays.                               *)
(***************************************************************************)
RECURSIVE Split(_, _)
\* The "/"-separated segments of p (empty ones included), cur is the segment
\* being read.
Split(p, cur) ==
    IF p = <<>> THEN <<cur>>
    ELSE IF Head(p) = "/" THEN <<cur>> \o Split(Tail(p), <<>>)
    ELSE Split(Tail(p), Append(cur, Head(p)))

Segments(p) == Split(p, <<>>)

RECURSIVE DropIdx(_, _, _)
\* segs without the empty segments and without the "." segments at index > keep.
DropIdx(segs, i, keep) ==
    IF i > Len(segs) THEN <<>>
    ELSE IF segs[i] = <<>> \/ (segs[i] = <<".">> /\ i > keep)
         THEN DropIdx(segs, i + 1, keep)
         ELSE <<segs[i]>> \o DropIdx(segs, i + 1, keep)

HasRoot(p) == p # <<>> /\ Head(p) = "/"

Components(p) ==
    LET segs == Segments(p)
        \* include_cur_dir: a relative path that starts "." then "/" or ends
        keep == IF ~HasRoot(p) /\ segs[1] = <<".">> THEN 1 ELSE 0
    IN  (IF HasRoot(p) THEN <<<<"/">>>> ELSE <<>>) \o DropIdx(segs, 1, keep)

\* byte-for-byte string comparison: what the code does NOT do
PathEqString(a, b) == a = b

\* impl PartialEq for Path
PathEq(a, b) == Components(a) = Components(b)

(***************************************************************************)
(* File contents, gzip members, tar streams                                *)
(***************************************************************************)
Raw(n)        == [k |-> "raw", b |-> n, v |-> <<>>]
GzMember(s)   == [k |-> "gz",  b |-> 0, v |-> s]

TarEntryOwned(name, mtime, mode, owner, data) ==
    [t |-> "entry", name |-> name, mtime |-> mtime, mode |-> mode,
     uid |-> owner, gid |-> owner, data |-> data]
TarEntry(name, mtime, mode, data) == TarEntryOwned(name, mtime, mode, 0, data)
EOA == [t |-> "eoa", name |-> <<>>, mtime |-> 0, mode |-> 0,
        uid |-> 0, gid |-> 0, data |-> <<>>]
BAD == [t |-> "bad", name |-> <<>>, mtime |-> 0, mode |-> 0,
        uid |-> 0, gid |-> 0, data |-> <<>>]

\* libflate::gzip::Decoder::new: reads the header at once, and decodes the
\* first member only.
Decoder(bytes) ==
    IF bytes # <<>> /\ bytes[1].k = "gz"
    THEN [ok |-> TRUE,  stream |-> bytes[1].v]
    ELSE [ok |-> FALSE, stream |-> <<>>]

Ok(name, data) == [ok |-> TRUE,  err |-> "", name |-> name, sig |-> data]
Err(msg)       == [ok |-> FALSE, err |-> msg, name |-> <<>>, sig |-> <<>>]

NoFile == [exists |-> FALSE, bytes |-> <<>>, mode |-> 0]
File(bytes, mode) == [exists |-> TRUE, bytes |-> bytes, mode |-> mode]

(***************************************************************************)
(* read_index                                                              *)
(***************************************************************************)
\* path.to_str().map_or(false, |x| x.starts_with(".SIGN."))
Qualifies(path) == IsUtf8(path) /\ StartsWith(path, SIGN_PREFIX)

RECURSIVE ScanIndexLast(_, _)
\* the scan gone wrong: the last qualifying entry wins
ScanIndexLast(s, i) ==
    IF i > Len(s) \/ s[i].t = "eoa" THEN Err("No signature found in APKINDEX.tar.gz")
    ELSE IF s[i].t = "bad" THEN Err("Failed to read entry")
    ELSE LET rest == ScanIndexLast(s, i + 1)
         IN  IF rest.ok \/ ~Qualifies(s[i].name) THEN rest
             ELSE Ok(s[i].name, s[i].data)

RECURSIVE ScanIndex(_, _)
\* for entry in entries { ... }: the archive ends at the end of the stream or
\* at a zero block.
ScanIndex(s, i) ==
    IF i > Len(s) \/ s[i].t = "eoa" THEN Err("No signature found in APKINDEX.tar.gz")
    ELSE IF s[i].t = "bad" THEN Err("Failed to read entry")
    ELSE IF Qualifies(s[i].name) THEN Ok(s[i].name, s[i].data)
    ELSE ScanIndex(s, i + 1)

ReadIndex(bytes) ==
    LET d == Decoder(bytes)
    IN  IF ~d.ok THEN Err("Failed to open index as gzip")
        ELSE ScanIndex(d.stream, 1)

(***************************************************************************)
(* read_image                                                              *)
(***************************************************************************)
RECURSIVE ImageScanString(_, _, _)
\* the scan with a byte-for-byte comparison of the path
ImageScanString(s, needle, i) ==
    IF i > Len(s) \/ s[i].t = "eoa" THEN 0
    ELSE IF s[i].t = "bad" THEN -1
    ELSE IF PathEqString(s[i].name, needle) THEN i
    ELSE ImageScanString(s, needle, i + 1)

RECURSIVE ImageScan(_, _, _)
\* The loop of read_image: the index of the entry handed to read_index, 0 when
\* the stream ends first, -1 when an entry cannot be read.
ImageScan(s, needle, i) ==
    IF i > Len(s) \/ s[i].t = "eoa" THEN 0
    ELSE IF s[i].t = "bad" THEN -1
    ELSE IF PathEq(s[i].name, needle) THEN i
    ELSE ImageScan(s, needle, i + 1)

ReadImage(file, arch) ==
    IF ~file.exists THEN Err("Failed to open image")
    ELSE LET d == Decoder(file.bytes)
         IN  IF ~d.ok THEN Err("Failed to open image as gzip")
             ELSE LET at == ImageScan(d.stream, Needle(arch), 1)
                  IN  IF at = -1 THEN Err("Failed to read entry")
                      ELSE IF at = 0 THEN Err("Index not found in image")
                      ELSE ReadIndex(d.stream[at].data)

(***************************************************************************)
(* read_signature                                                          *)
(***************************************************************************)
\* Path::file_name: the last component when it is a normal one
FileName(p) ==
    LET c == Components(p)
    IN  IF c = <<>> \/ c[Len(c)] \in {<<"/">>, <<".">>, <<".", ".">>}
        THEN [ok |-> FALSE, name |-> <<>>]
        ELSE [ok |-> TRUE,  name |-> c[Len(c)]]

FromImage(path, arch, file) ==
    [kind |-> "FromImage", path |-> path, arch |-> arch, file |-> file]
FromIndex(path, file) ==
    [kind |-> "FromIndex", path |-> path, arch |-> <<>>, file |-> file]
FromFile(path, file) ==
    [kind |-> "FromFile", path |-> path, arch |-> <<>>, file |-> file]

\* c.file is the file c.path names when read_signature runs
ReadSignature(c) ==
    CASE c.kind = "FromImage" -> ReadImage(c.file, c.arch)
      [] c.kind = "FromIndex" ->
            IF ~c.file.exists THEN Err("Failed to open image")
            ELSE ReadIndex(c.file.bytes)
      [] c.kind = "FromFile" ->
            LET n == FileName(c.path)
            IN  IF ~n.ok THEN Err("Failed to determine filename")
                ELSE IF ~c.file.exists THEN Err("read failed")
                ELSE Ok(n.name, c.file.bytes)

(***************************************************************************)
(* LocateSpec: read_signature applied to bounded inputs                    *)
(***************************************************************************)
SigA == <<Raw(1)>>
SigB == <<Raw(2), Raw(3)>>

NameSignA    == SIGN_PREFIX \o <<"a">>
NameSignB    == SIGN_PREFIX \o <<"b">>
NameSignSub  == SIGN_PREFIX \o <<"a", "/", "s">>
NameInfix    == <<"x">> \o SIGN_PREFIX
NameShort    == <<".", "S", "I", "G", "N">>
NameOther    == <<"D">>
NameNotUtf8  == SIGN_PREFIX \o <<BadByte>>

IndexNames == {NameSignA, NameSignB, NameSignSub, NameInfix, NameShort,
               NameOther, NameNotUtf8}

\* the two plain signature names come with either content, the others with one
IndexBlocks ==
    {TarEntry(n, 1, 420, d) : n \in {NameSignA, NameSignB}, d \in {SigA, SigB}}
      \cup {TarEntry(n, 1, 420, SigA) : n \in IndexNames \ {NameSignA, NameSignB}}
      \cup {EOA, BAD}

IndexStreams == SeqsUpTo(IndexBlocks, MaxEntries)

\* the files a from-index run may be pointed at
IndexFiles ==
    {File(<<GzMember(s)>>, 420) : s \in IndexStreams}
      \cup {File(<<GzMember(<<TarEntry(NameOther, 1, 420, SigA)>>),
                   GzMember(<<TarEntry(NameSignA, 1, 420, SigB), EOA>>)>>, 420),
            File(<<Raw(1)>>, 420), File(<<>>, 420), NoFile}

InnerSigned(n, d) == <<GzMember(<<TarEntry(n, 1, 420, d)>>),
                       GzMember(<<TarEntry(NameOther, 1, 420, <<Raw(9)>>), EOA>>)>>
InnerUnsigned     == <<GzMember(<<TarEntry(NameOther, 1, 420, <<Raw(9)>>), EOA>>)>>

\* ./apks//x86_64/APKINDEX.tar.gz
NeedleDoubledSlash ==
    <<".", "/", "a", "p", "k", "s", "/", "/">> \o SubSeq(Needle(ARCH_X86), 8, Len(Needle(ARCH_X86)))
\* ./apks/./x86_64/APKINDEX.tar.gz
NeedleInteriorDot ==
    <<".", "/", "a", "p", "k", "s", "/", ".", "/">> \o SubSeq(Needle(ARCH_X86), 8, Len(Needle(ARCH_X86)))
\* ./apks/x86_64/APKINDEX.tar.gz/
NeedleTrailingSlash == Needle(ARCH_X86) \o <<"/">>
\* apks/x86_64/APKINDEX.tar.gz
NeedleNoCurDir == Tail(Tail(Needle(ARCH_X86)))
\* /apks/x86_64/APKINDEX.tar.gz
NeedleRooted == Tail(Needle(ARCH_X86))

ImageNames ==
    {Needle(ARCH_X86), Needle(ARCH_ARM), NeedleDoubledSlash, NeedleInteriorDot,
     NeedleTrailingSlash, NeedleNoCurDir, NeedleRooted, <<"e", "t", "c">>}

\* the needle and its doubled-slash spelling come with each inner index, the
\* others with one
ImageBlocks ==
    {TarEntry(n, 1, 420, d) : n \in {Needle(ARCH_X86), NeedleDoubledSlash},
                              d \in {InnerSigned(NameSignA, SigA),
                                     InnerSigned(NameSignB, SigB),
                                     InnerUnsigned}}
      \cup {TarEntry(n, 1, 420, InnerSigned(NameSignA, SigA)) :
                n \in ImageNames \ {Needle(ARCH_X86), NeedleDoubledSlash}}
      \cup {EOA, BAD}

ImageFiles ==
    {File(<<GzMember(s)>>, 420) : s \in SeqsUpTo(ImageBlocks, MaxImageEntries)}
      \cup {File(<<Raw(1)>>, 420), NoFile}

SigFilePaths ==
    {<<"m", "y", "s", "i", "g">>,
     <<".", "/", "k", "/", "m", "y", "s", "i", "g">>,
     <<"k", "/", NameSignA[1]>> \o Tail(NameSignA) \o <<"/">>,
     <<"k", "/", ".">>,
     <<"k", "/", ".", ".">>,
     <<"/">>,
     <<>>}

LocateCmds ==
    {FromImage(<<"i", "m", "g">>, a, f) : a \in {ARCH_X86, ARCH_ARM}, f \in ImageFiles}
      \cup {FromIndex(<<"s", "r", "c">>, f) : f \in IndexFiles}
      \cup {FromFile(p, f) : p \in SigFilePaths, f \in {File(SigA, 420), File(<<>>, 384), NoFile}}

MainIdle ==
    /\ pc = "idle" /\ cmd = <<>> /\ files = <<>> /\ files0 = <<>>
    /\ index_path = "" /\ output_path = "" /\ env_sde = <<>> /\ umask = 0
    /\ now = 0 /\ sig_name = <<>> /\ sig = <<>> /\ tmp = <<>> /\ exits = <<>>
    /\ gzip_out = <<>> /\ signed_index = <<>> /\ err = ""

PipeIdle ==
    /\ p_pc = "idle" /\ p_tar = <<>> /\ p_abuild = <<>> /\ p_gzip = <<>>
    /\ p_pipe1 = <<>> /\ p_pipe2 = <<>> /\ p_pipe3 = <<>> /\ p_read = 0
    /\ p_waited = {}

LocIdle == l_pc = "idle" /\ l_cmd = <<>> /\ l_res = <<>>

LocateInit ==
    /\ l_pc = "call"
    /\ l_cmd \in LocateCmds
    /\ l_res = <<>>
    /\ MainIdle /\ PipeIdle

\* read_signature, SubCommand::FromImage
LFromImage ==
    /\ l_pc = "call" /\ l_cmd.kind = "FromImage"
    /\ l_res' = ReadSignature(l_cmd)
    /\ l_pc' = "ret"
    /\ UNCHANGED <<l_cmd, mainVars, pipeVars>>

\* read_signature, SubCommand::FromIndex
LFromIndex ==
    /\ l_pc = "call" /\ l_cmd.kind = "FromIndex"
    /\ l_res' = ReadSignature(l_cmd)
    /\ l_pc' = "ret"
    /\ UNCHANGED <<l_cmd, mainVars, pipeVars>>

\* read_signature, SubCommand::FromFile
LFromFile ==
    /\ l_pc = "call" /\ l_cmd.kind = "FromFile"
    /\ l_res' = ReadSignature(l_cmd)
    /\ l_pc' = "ret"
    /\ UNCHANGED <<l_cmd, mainVars, pipeVars>>

LocateNext == LFromImage \/ LFromIndex \/ LFromFile

LocateSpec == LocateInit /\ [][LocateNext]_vars

(***************************************************************************)
(* sign_archive: helpers                                                   *)
(***************************************************************************)
Stages == {"tar", "abuild-tar", "gzip"}

NoErr == [msg |-> "", name |-> ""]
Error(msg, name) == [msg |-> msg, name |-> name]

DigitVal(c) ==
    CASE c = "0" -> 0 [] c = "1" -> 1 [] c = "2" -> 2 [] c = "3" -> 3
      [] c = "4" -> 4 [] c = "5" -> 5 [] c = "6" -> 6 [] c = "7" -> 7
      [] c = "8" -> 8 [] c = "9" -> 9
Digits == {"0", "1", "2", "3", "4", "5", "6", "7", "8", "9"}

RECURSIVE DigitsValue(_, _)
DigitsValue(s, acc) ==
    IF s = <<>> THEN acc ELSE DigitsValue(Tail(s), 10 * acc + DigitVal(Head(s)))

\* <i64 as FromStr>::from_str: an optional sign, then one or more digits and
\* nothing else.  (The strings of this model are too short to overflow i64.)
ParseI64(s) ==
    LET signed == s # <<>> /\ Head(s) \in {"+", "-"}
        body   == IF signed THEN Tail(s) ELSE s
    IN  IF body = <<>> \/ ~(Range(body) \subseteq Digits)
        THEN [some |-> FALSE, val |-> 0]
        ELSE [some |-> TRUE,
              val  |-> IF signed /\ Head(s) = "-" THEN 0 - DigitsValue(body, 0)
                       ELSE DigitsValue(body, 0)]

\* get_source_date_epoch gone wrong: the variable is never honoured
GetSourceDateEpochNever(e) == [some |-> FALSE, val |-> 0]

\* get_source_date_epoch: env::var(..).ok()?.parse().ok()
GetSourceDateEpoch(e) ==
    IF ~e.set THEN [some |-> FALSE, val |-> 0] ELSE ParseI64(e.val)

\* FileTime::from_unix_time(timestamp, 0)
FileTimeFromUnix(t) == [sec |-> t, nsec |-> 0]

RECURSIVE AndNot(_, _)
\* a & !b on non-negative integers
AndNot(a, b) ==
    IF a = 0 THEN 0
    ELSE (IF a % 2 = 1 /\ b % 2 = 0 THEN 1 ELSE 0) + 2 * AndNot(a \div 2, b \div 2)

\* the mode open(2) gives a file fs::write creates: 0o666 & !umask
CreateMode(um) == AndNot(438, um)

\* Permissions::from_mode(0o644)
MODE_644 == 420

\* What open(O_CREAT) of dir.path().join(sig_name) does in the temporary
\* directory, which holds no subdirectory: "created" with the file's name in
\* the directory, or the errno.
SigPathOpen(name) ==
    LET segs    == Segments(name)
        last    == segs[Len(segs)]
        parents == SubSeq(segs, 1, Len(segs) - 1)
    IN  IF HasRoot(name) \/ <<".", ".">> \in Range(parents)
        THEN [res |-> "outside", file |-> <<>>]
        ELSE IF \E i \in 1..Len(parents) : parents[i] \notin {<<>>, <<".">>}
        THEN [res |-> "ENOENT", file |-> <<>>]
        ELSE IF last \in {<<>>, <<".">>, <<".", ".">>}
        THEN [res |-> "EISDIR", file |-> <<>>]
        ELSE [res |-> "created", file |-> last]

\* the file tar finds under -C dir.path() for the member sig_name
SigFile(t, name) ==
    LET o == SigPathOpen(name)
    IN  IF o.res = "created" /\ \E f \in t.entries : f.name = o.file
        THEN CHOOSE f \in t.entries : f.name = o.file
        ELSE [name |-> <<>>, bytes |-> <<>>, mtime |-> FileTimeFromUnix(0), mode |-> 0]

\* the header tar gone wrong: the mode is not taken from the file
TarCreateFixedMode(t, name) ==
    LET f == SigFile(t, name)
    IN  <<TarEntry(name, f.mtime.sec, MODE_644, f.bytes), EOA, EOA>>

\* tar --owner=0 --group=0 --numeric-owner -C dir -f - -c sig_name: one entry
\* named sig_name with the file's mtime (seconds), mode and content, owner and
\* group 0, then the end-of-archive blocks.
TarCreate(t, name) ==
    LET f == SigFile(t, name)
    IN  <<TarEntry(name, f.mtime.sec, f.mode, f.bytes), EOA, EOA>>

RECURSIVE AbuildTarCut(_)
\* abuild-tar --cut: the stream without its end-of-archive blocks
AbuildTarCut(s) ==
    IF s # <<>> /\ s[Len(s)].t = "eoa" THEN AbuildTarCut(SubSeq(s, 1, Len(s) - 1))
    ELSE s

\* gzip -n -9: one member, no name or timestamp in its header
Gzip(s) == <<GzMember(s)>>

\* stdout of the gzip stage for the given exit statuses: a stage that failed
\* passes nothing on.
PipelineStdout(t, name, ex) ==
    LET tarOut == IF ex["tar"] = 0 THEN TarCreate(t, name) ELSE <<>>
        cutOut == IF ex["abuild-tar"] = 0 THEN AbuildTarCut(tarOut) ELSE <<>>
    IN  IF ex["gzip"] = 0 THEN Gzip(cutOut) ELSE <<>>

\* exit.success() gone wrong: every status passes
ExitSuccessAlways(st) == TRUE

\* ExitStatus::success
ExitSuccess(st) == st = 0

\* the buffer gone wrong: the index first, then the fragment
SignedBytesSwapped(gz, idx) == idx \o gz

\* signed_index = gzip_out.stdout; f.read_to_end(&mut signed_index)
SignedBytes(gz, idx) == gz \o idx

\* the guard gone wrong: the directory is kept
DropTempDirLeak(t) == t

\* Drop for TempDir, run when sign_archive returns
DropTempDir(t) == [t EXCEPT !.exists = FALSE, !.entries = {}]

(***************************************************************************)
(* Spec: one run of main                                                   *)
(***************************************************************************)
Cmd(kind, path, arch) == [kind |-> kind, path |-> path, arch |-> arch]
WithFile(c, f) == [kind |-> c.kind, path |-> c.path, arch |-> c.arch, file |-> f]

SrcPath == <<"s", "r", "c">>

\* a signed index: the signature fragment, then the unsigned index
SignedIndexFile(n, m, mode, owner, d) ==
    File(<<GzMember(<<TarEntryOwned(n, m, mode, owner, d)>>)>> \o InnerUnsigned, 420)

\* the subcommand and the file it names
MainSources ==
    {<<Cmd("FromIndex", SrcPath, <<>>), SignedIndexFile(NameSignA, m, mode, 0, d)>> :
        m \in 1..MaxClock, mode \in {420, 384}, d \in {SigA, SigB}}
      \cup
    {<<Cmd("FromIndex", SrcPath, <<>>), SignedIndexFile(NameSignSub, 1, 420, 0, SigA)>>,
     <<Cmd("FromIndex", SrcPath, <<>>), SignedIndexFile(NameSignA, 1, 420, 1, SigA)>>,
     <<Cmd("FromIndex", SrcPath, <<>>), File(InnerUnsigned, 420)>>,
     <<Cmd("FromFile", <<"m", "y", "s", "i", "g">>, <<>>), File(SigA, 384)>>,
     <<Cmd("FromImage", SrcPath, ARCH_X86),
       File(<<GzMember(<<TarEntry(<<"e", "t", "c">>, 1, 420, <<>>),
                         TarEntry(Needle(ARCH_X86), 1, 420, InnerSigned(NameSignB, SigB)),
                         EOA>>)>>, 420)>>}

EnvValues ==
    {[set |-> FALSE, val |-> <<>>]} \cup
    {[set |-> TRUE, val |-> v] :
        v \in {<<"1">>, <<"2">>, <<"-", "1">>, <<"+", "2">>, <<"x">>, <<>>, <<"1", "x">>}}

Init ==
    /\ LocIdle /\ PipeIdle
    /\ pc = "read_signature"
    /\ \E src \in MainSources,
          idx \in {NoFile, File(InnerUnsigned, 384), File(<<Raw(4)>>, 420)},
          out \in {<<"idx", NoFile>>, <<"out", NoFile>>, <<"out", File(<<Raw(5)>>, 384)>>} :
            /\ cmd = src[1]
            /\ files = [src |-> src[2], idx |-> idx, out |-> out[2]]
            /\ output_path = out[1]
    /\ files0 = files
    /\ index_path = "idx"
    /\ env_sde \in EnvValues
    /\ umask \in {18, 63}
    /\ now \in 1..MaxClock
    /\ sig_name = <<>> /\ sig = <<>>
    /\ tmp = [exists |-> FALSE, created |-> FALSE, entries |-> {}]
    /\ exits = <<>>
    /\ gzip_out = <<>> /\ signed_index = <<>>
    /\ err = NoErr

\* sign_archive returns Err(e): the temporary directory is dropped on the way
Return(e) ==
    /\ pc' = "err"
    /\ err' = e
    /\ tmp' = IF tmp.exists THEN DropTempDir(tmp) ELSE tmp

\* main: read_signature(&args.subcommand)?
MainReadSignature ==
    /\ pc = "read_signature"
    /\ LET r == ReadSignature(WithFile(cmd, files["src"]))
       IN  IF r.ok
           THEN /\ sig_name' = r.name /\ sig' = r.sig
                /\ pc' = "tempdir"
                /\ UNCHANGED <<err, tmp>>
           ELSE /\ Return(Error(r.err, ""))
                /\ UNCHANGED <<sig_name, sig>>
    /\ UNCHANGED <<cmd, files, files0, index_path, output_path, env_sde, umask,
                   now, exits, gzip_out, signed_index, locVars, pipeVars>>

\* let dir = tempdir()?
TempDir ==
    /\ pc = "tempdir"
    /\ \/ /\ tmp' = [exists |-> TRUE, created |-> TRUE, entries |-> {}]
          /\ pc' = "write_sig"
          /\ UNCHANGED err
       \/ Return(Error("tempdir failed", ""))
    /\ UNCHANGED <<cmd, files, files0, index_path, output_path, env_sde, umask,
                   now, sig_name, sig, exits, gzip_out, signed_index, locVars, pipeVars>>

\* fs::write(&sig_path, sig)?  The new file gets the clock's time, with
\* whatever nanoseconds the filesystem keeps.  The open fails when the name
\* has a parent directory, which nothing has created; a name that leaves the
\* directory (the locator returns none) puts the file elsewhere.
WriteSig ==
    /\ pc = "write_sig"
    /\ LET o == SigPathOpen(sig_name)
       IN  \/ /\ o.res = "created"
              /\ \E ns \in {0, 1} :
                    tmp' = [tmp EXCEPT !.entries =
                              {[name |-> o.file, bytes |-> sig,
                                mtime |-> [sec |-> now, nsec |-> ns],
                                mode |-> CreateMode(umask)]}]
              /\ pc' = "set_mtime"
              /\ UNCHANGED err
           \/ /\ o.res \in {"ENOENT", "EISDIR"}
              /\ Return(Error("write signature", o.res))
           \/ /\ o.res = "outside"
              /\ pc' = "set_mtime"
              /\ UNCHANGED <<err, tmp>>
           \/ Return(Error("write signature", "EIO"))
    /\ UNCHANGED <<cmd, files, files0, index_path, output_path, env_sde, umask,
                   now, sig_name, sig, exits, gzip_out, signed_index, locVars, pipeVars>>

\* if let Some(timestamp) = get_source_date_epoch() { set_file_mtime(..)? }
SetMtime ==
    /\ pc = "set_mtime"
    /\ LET ts == GetSourceDateEpoch(env_sde)
           o  == SigPathOpen(sig_name)
       IN  IF ts.some
           THEN \/ /\ tmp' = [tmp EXCEPT !.entries =
                                {IF f.name = o.file
                                 THEN [f EXCEPT !.mtime = FileTimeFromUnix(ts.val)]
                                 ELSE f : f \in tmp.entries}]
                   /\ pc' = "spawn_tar"
                   /\ UNCHANGED err
                \/ Return(Error("set_file_mtime failed", ""))
           ELSE /\ pc' = "spawn_tar"
                /\ UNCHANGED <<err, tmp>>
    /\ UNCHANGED <<cmd, files, files0, index_path, output_path, env_sde, umask,
                   now, sig_name, sig, exits, gzip_out, signed_index, locVars, pipeVars>>

\* Command::new("tar")...spawn().context("Failed to spawn tar")?
SpawnTar ==
    /\ pc = "spawn_tar"
    /\ \/ pc' = "spawn_abuild" /\ UNCHANGED <<err, tmp>>
       \/ Return(Error("Failed to spawn tar", ""))
    /\ UNCHANGED <<cmd, files, files0, index_path, output_path, env_sde, umask,
                   now, sig_name, sig, exits, gzip_out, signed_index, locVars, pipeVars>>

\* Command::new("abuild-tar")...spawn().context("Failed to spawn abuild-tar")?
SpawnAbuild ==
    /\ pc = "spawn_abuild"
    /\ \/ pc' = "run_gzip" /\ UNCHANGED <<err, tmp>>
       \/ Return(Error("Failed to spawn abuild-tar", ""))
    /\ UNCHANGED <<cmd, files, files0, index_path, output_path, env_sde, umask,
                   now, sig_name, sig, exits, gzip_out, signed_index, locVars, pipeVars>>

\* Command::new("gzip")...output().context("Failed to run gzip")?  output()
\* returns once gzip has exited; by then the stages have their outcomes.
RunGzip ==
    /\ pc = "run_gzip"
    /\ \/ /\ \E ex \in [Stages -> {0, 1}] :
                /\ exits' = ex
                /\ gzip_out' = PipelineStdout(tmp, sig_name, ex)
          /\ pc' = "check_gzip"
          /\ UNCHANGED <<err, tmp>>
       \/ /\ Return(Error("Failed to run gzip", ""))
          /\ UNCHANGED <<exits, gzip_out>>
    /\ UNCHANGED <<cmd, files, files0, index_path, output_path, env_sde, umask,
                   now, sig_name, sig, signed_index, locVars, pipeVars>>

\* check_exit(exit, name): on to `next`, or bail!("Command failed: ..")
CheckExit(name, next) ==
    IF ExitSuccess(exits[name])
    THEN pc' = next /\ UNCHANGED <<err, tmp>>
    ELSE Return(Error("Command failed", name))

\* check_exit(gzip_out.status, "gzip")?
CheckGzip ==
    /\ pc = "check_gzip"
    /\ CheckExit("gzip", "wait_abuild")
    /\ UNCHANGED <<cmd, files, files0, index_path, output_path, env_sde, umask,
                   now, sig_name, sig, exits, gzip_out, signed_index, locVars, pipeVars>>

\* wait_check_exit(abuild_cmd, "abuild-tar")?  (wait() on an own, unreaped
\* child does not fail)
WaitAbuild ==
    /\ pc = "wait_abuild"
    /\ CheckExit("abuild-tar", "wait_tar")
    /\ UNCHANGED <<cmd, files, files0, index_path, output_path, env_sde, umask,
                   now, sig_name, sig, exits, gzip_out, signed_index, locVars, pipeVars>>

\* wait_check_exit(tar_cmd, "tar")?
WaitTar ==
    /\ pc = "wait_tar"
    /\ CheckExit("tar", "open_index")
    /\ UNCHANGED <<cmd, files, files0, index_path, output_path, env_sde, umask,
                   now, sig_name, sig, exits, gzip_out, signed_index, locVars, pipeVars>>

\* File::open(index_path).with_context(.."Failed to open index at"..)?
OpenIndex ==
    /\ pc = "open_index"
    /\ \/ /\ files[index_path].exists
          /\ pc' = "read_index"
          /\ UNCHANGED <<err, tmp>>
       \/ Return(Error("Failed to open index", ""))
    /\ UNCHANGED <<cmd, files, files0, index_path, output_path, env_sde, umask,
                   now, sig_name, sig, exits, gzip_out, signed_index, locVars, pipeVars>>

\* f.read_to_end(&mut signed_index).context("Failed to read index")?
ReadIndexBytes ==
    /\ pc = "read_index"
    /\ \/ /\ signed_index' = SignedBytes(gzip_out, files[index_path].bytes)
          /\ pc' = "write_output"
          /\ UNCHANGED <<err, tmp>>
       \/ /\ Return(Error("Failed to read index", ""))
          /\ UNCHANGED signed_index
    /\ UNCHANGED <<cmd, files, files0, index_path, output_path, env_sde, umask,
                   now, sig_name, sig, exits, gzip_out, locVars, pipeVars>>

\* the mode of the file fs::write leaves: an existing file keeps its own
WrittenMode == IF files[output_path].exists THEN files[output_path].mode
               ELSE CreateMode(umask)

\* fs::write(&output_path, &signed_index).with_context(..)?: the open
\* (create, truncate) fails and nothing is touched; or the file is truncated
\* and the write stops part-way; or all of it is written.
WriteOutput ==
    /\ pc = "write_output"
    /\ \/ /\ files' = [files EXCEPT ![output_path] = File(signed_index, WrittenMode)]
          /\ pc' = "chmod"
          /\ UNCHANGED <<err, tmp>>
       \/ /\ Return(Error("Failed to write signed index", "open"))
          /\ UNCHANGED files
       \/ /\ \E n \in 0..(Len(signed_index) - 1) :
                files' = [files EXCEPT ![output_path] =
                            File(SubSeq(signed_index, 1, n), WrittenMode)]
          /\ Return(Error("Failed to write signed index", "write"))
    /\ UNCHANGED <<cmd, files0, index_path, output_path, env_sde, umask,
                   now, sig_name, sig, exits, gzip_out, signed_index, locVars, pipeVars>>

\* fs::set_permissions(output_path, perms).context("Failed to chmod file")?; Ok(())
Chmod ==
    /\ pc = "chmod"
    /\ \/ /\ files' = [files EXCEPT ![output_path].mode = MODE_644]
          /\ pc' = "done"
          /\ tmp' = DropTempDir(tmp)
          /\ UNCHANGED err
       \/ /\ Return(Error("Failed to chmod file", ""))
          /\ UNCHANGED files
    /\ UNCHANGED <<cmd, files0, index_path, output_path, env_sde, umask,
                   now, sig_name, sig, exits, gzip_out, signed_index, locVars, pipeVars>>

Next ==
    \/ MainReadSignature \/ TempDir \/ WriteSig \/ SetMtime \/ SpawnTar
    \/ SpawnAbuild \/ RunGzip \/ CheckGzip \/ WaitAbuild \/ WaitTar
    \/ OpenIndex \/ ReadIndexBytes \/ WriteOutput \/ Chmod

Spec == Init /\ [][Next]_vars

(***************************************************************************)
(* Properties of sign_archive (checked under Spec)                         *)
(***************************************************************************)
Returned == pc \in {"done", "err"}

PipelineRan == DOMAIN exits = Stages

\* SOURCE_DATE_EPOCH values that are integers, spelled out, and their value
EpochTable ==
    [v \in {<<"1">>, <<"2">>, <<"-", "1">>, <<"+", "2">>} |->
        CASE v = <<"1">> -> 1 [] v = <<"2">> -> 2
          [] v = <<"-", "1">> -> 0 - 1 [] v = <<"+", "2">> -> 2]
Pinned  == env_sde.set /\ env_sde.val \in DOMAIN EpochTable
EpochOf == EpochTable[env_sde.val]

\* C1: every run of sign_archive that ends in an error leaves the file at
\* output_path exactly as it was before the run.
C1_OutputUntouchedOnError ==
    pc = "err" => files[output_path] = files0[output_path]

\* C2: after a successful run the bytes at output_path are the gzip stage's
\* stdout followed by the content the index file had before the run, and
\* nothing else; the stdout is one gzip member holding the single trimmed
\* entry for the signature.
C2_OutputIsFragmentThenIndex ==
    pc = "done" =>
        /\ files[output_path].bytes = gzip_out \o files0[index_path].bytes
        /\ Len(gzip_out) = 1
        /\ gzip_out[1].k = "gz"
        /\ Len(gzip_out[1].v) = 1
        /\ gzip_out[1].v[1].t = "entry"
        /\ gzip_out[1].v[1].name = sig_name
        /\ gzip_out[1].v[1].data = sig

C2_Witness ==
    /\ pc = "done"
    /\ output_path = index_path
    /\ files0[index_path].bytes # <<>>

\* C3: the index is opened and the output written only when all three stages
\* exited with status zero; when any stage exits non-zero the run ends with
\* the error "Command failed" naming a stage that did fail, and no file is
\* written.
C3_StageFailureIsFatal ==
    PipelineRan =>
        /\ pc \in {"open_index", "read_index", "write_output", "chmod", "done"}
              => \A s \in Stages : exits[s] = 0
        /\ ((\E s \in Stages : exits[s] # 0)
              /\ pc \notin {"check_gzip", "wait_abuild", "wait_tar"})
              => /\ pc = "err"
                 /\ err.msg = "Command failed"
                 /\ err.name \in Stages
                 /\ exits[err.name] # 0
                 /\ files = files0

C3_Witness ==
    /\ pc = "err"
    /\ PipelineRan
    /\ exits["gzip"] = 0 /\ exits["abuild-tar"] = 0 /\ exits["tar"] = 1
    /\ err = Error("Command failed", "tar")

\* C7: from the moment tar is about to be spawned, the signature file's mtime
\* is exactly (T, 0) when SOURCE_DATE_EPOCH is the integer T, and is the
\* filesystem's own stamp when the variable is absent or no integer; setting
\* the mtime fails only in the first case.
C7_MtimePinnedBeforeTar ==
    /\ (pc \in {"spawn_tar", "spawn_abuild", "run_gzip", "check_gzip", "wait_abuild",
                "wait_tar", "open_index", "read_index", "write_output", "chmod"})
          => \A f \in tmp.entries :
                IF Pinned THEN f.mtime = [sec |-> EpochOf, nsec |-> 0]
                ELSE f.mtime.sec = now
    /\ err.msg = "set_file_mtime failed" => Pinned

C7_Witness ==
    /\ pc = "spawn_abuild"
    /\ env_sde.val = <<"-", "1">>
    /\ \E f \in tmp.entries : f.mtime = [sec |-> 0 - 1, nsec |-> 0] /\ now # 0 - 1

\* C8: once sign_archive has returned, by success or by any error, the
\* temporary directory it created is gone.
C8_TempDirRemovedOnExit ==
    Returned => ~tmp.exists

C8_Witness ==
    /\ pc = "err"
    /\ tmp.created
    /\ err.msg = "Failed to chmod file"

\* C9: whatever name the Locator returned, step 2 of sign_archive does not
\* fail on account of the name: the signature is materialized at
\* <temporary directory>/<sig_name>.
C9_SigMaterializedForEveryName ==
    ~(pc = "err" /\ err.msg = "write signature" /\ err.name \in {"ENOENT", "EISDIR"})

\* the leading gzip member of the signed index the signature was taken from
SourceFragment == SubSeq(files0["src"].bytes, 1, 1)
SourceHeader   == files0["src"].bytes[1].v[1]

Child(st, buf, status) == [st |-> st, buf |-> buf, status |-> status]

\* what tar writes: the header and data blocks of the one member, then two
\* zero blocks
TarBlocks(n) == [i \in 1..n |-> "data"] \o <<"eoa", "eoa">>

PipeInit ==
    /\ LocIdle /\ MainIdle
    /\ p_pc = "spawn_tar"
    /\ \E n \in 1..MaxBlocks : p_tar = Child("none", TarBlocks(n), 0)
    /\ p_abuild = Child("none", <<>>, 0)
    /\ p_gzip = Child("none", <<>>, 0)
    /\ p_pipe1 = <<>> /\ p_pipe2 = <<>> /\ p_pipe3 = <<>>
    /\ p_read = 0
    /\ p_waited = {}

\* the read end of tar's stdout: held by the parent until it is handed to
\* abuild-tar, then by abuild-tar alone
Pipe1ReaderGone == p_abuild.st \in {"nospawn", "exited"}

\* the read end of abuild-tar's stdout: held by the parent until the gzip
\* Command is dropped when output() returns, and by gzip while it runs
Pipe2ReaderGone ==
    \/ p_gzip.st = "nospawn"
    \/ p_gzip.st = "exited" /\ p_pc # "output"

\* the parent's read gone wrong: nothing is taken out of the pipe
DrainedNothing(pipe) == pipe

\* read_to_end on gzip's stdout takes what is in the pipe
Drained(pipe) == Tail(pipe)

\* Command::new("tar")...stdout(Stdio::piped()).spawn()
PSpawnTar ==
    /\ p_pc = "spawn_tar"
    /\ \/ p_tar' = [p_tar EXCEPT !.st = "run"] /\ p_pc' = "spawn_abuild"
       \/ p_tar' = [p_tar EXCEPT !.st = "nospawn"] /\ p_pc' = "failed"
    /\ UNCHANGED <<p_abuild, p_gzip, p_pipe1, p_pipe2, p_pipe3, p_read, p_waited, locVars, mainVars>>

\* Command::new("abuild-tar")...stdin(Stdio::from(tar_stdout))...spawn()
PSpawnAbuild ==
    /\ p_pc = "spawn_abuild"
    /\ \/ p_abuild' = [p_abuild EXCEPT !.st = "run"] /\ p_pc' = "run_gzip"
       \/ p_abuild' = [p_abuild EXCEPT !.st = "nospawn"] /\ p_pc' = "failed"
    /\ UNCHANGED <<p_tar, p_gzip, p_pipe1, p_pipe2, p_pipe3, p_read, p_waited, locVars, mainVars>>

\* Command::new("gzip")...output(): spawn, then read stdout to end-of-file
PSpawnGzip ==
    /\ p_pc = "run_gzip"
    /\ \/ p_gzip' = [p_gzip EXCEPT !.st = "run"] /\ p_pc' = "output"
       \/ p_gzip' = [p_gzip EXCEPT !.st = "nospawn"] /\ p_pc' = "failed"
    /\ UNCHANGED <<p_tar, p_abuild, p_pipe1, p_pipe2, p_pipe3, p_read, p_waited, locVars, mainVars>>

\* output(): one read of gzip's stdout
PDrain ==
    /\ p_pc = "output"
    /\ p_pipe3 # <<>>
    /\ p_pipe3' = Drained(p_pipe3)
    /\ p_read' = p_read + (Len(p_pipe3) - Len(p_pipe3'))
    /\ UNCHANGED <<p_pc, p_tar, p_abuild, p_gzip, p_pipe1, p_pipe2, p_waited, locVars, mainVars>>

\* output() returns at end-of-file once gzip is reaped; check_exit(.., "gzip")?
PGzipEof ==
    /\ p_pc = "output"
    /\ p_pipe3 = <<>> /\ p_gzip.st = "exited"
    /\ p_pc' = IF ExitSuccess(p_gzip.status) THEN "wait_abuild" ELSE "failed"
    /\ p_waited' = p_waited \cup {"gzip"}
    /\ UNCHANGED <<p_tar, p_abuild, p_gzip, p_pipe1, p_pipe2, p_pipe3, p_read, locVars, mainVars>>

\* wait_check_exit(abuild_cmd, "abuild-tar")?
PWaitAbuild ==
    /\ p_pc = "wait_abuild"
    /\ p_abuild.st = "exited"
    /\ p_pc' = IF ExitSuccess(p_abuild.status) THEN "wait_tar" ELSE "failed"
    /\ p_waited' = p_waited \cup {"abuild-tar"}
    /\ UNCHANGED <<p_tar, p_abuild, p_gzip, p_pipe1, p_pipe2, p_pipe3, p_read, locVars, mainVars>>

\* wait_check_exit(tar_cmd, "tar")?
PWaitTar ==
    /\ p_pc = "wait_tar"
    /\ p_tar.st = "exited"
    /\ p_pc' = IF ExitSuccess(p_tar.status) THEN "joined" ELSE "failed"
    /\ p_waited' = p_waited \cup {"tar"}
    /\ UNCHANGED <<p_tar, p_abuild, p_gzip, p_pipe1, p_pipe2, p_pipe3, p_read, locVars, mainVars>>

\* tar: write the next block, die on a pipe nobody reads, or exit when done
TarStep ==
    /\ p_tar.st = "run"
    /\ \/ /\ p_tar.buf # <<>> /\ Pipe1ReaderGone
          /\ p_tar' = [p_tar EXCEPT !.st = "exited", !.status = 2]
          /\ UNCHANGED p_pipe1
       \/ /\ p_tar.buf # <<>> /\ ~Pipe1ReaderGone /\ Len(p_pipe1) < PipeCap
          /\ p_pipe1' = Append(p_pipe1, Head(p_tar.buf))
          /\ p_tar' = [p_tar EXCEPT !.buf = Tail(p_tar.buf)]
       \/ /\ p_tar.buf = <<>>
          /\ \E st \in {0, 1} : p_tar' = [p_tar EXCEPT !.st = "exited", !.status = st]
          /\ UNCHANGED p_pipe1
    /\ UNCHANGED <<p_pc, p_abuild, p_gzip, p_pipe2, p_pipe3, p_read, p_waited, locVars, mainVars>>

\* abuild-tar --cut: pass each block on except the zero blocks, exit at
\* end-of-file
AbuildStep ==
    /\ p_abuild.st = "run"
    /\ \/ /\ p_abuild.buf # <<>> /\ Pipe2ReaderGone
          /\ p_abuild' = [p_abuild EXCEPT !.st = "exited", !.status = 2]
          /\ UNCHANGED <<p_pipe1, p_pipe2>>
       \/ /\ p_abuild.buf # <<>> /\ ~Pipe2ReaderGone /\ Len(p_pipe2) < PipeCap
          /\ p_pipe2' = Append(p_pipe2, Head(p_abuild.buf))
          /\ p_abuild' = [p_abuild EXCEPT !.buf = <<>>]
          /\ UNCHANGED p_pipe1
       \/ /\ p_abuild.buf = <<>> /\ p_pipe1 # <<>>
          /\ p_pipe1' = Tail(p_pipe1)
          /\ p_abuild' = [p_abuild EXCEPT !.buf =
                            IF Head(p_pipe1) = "eoa" THEN <<>> ELSE <<Head(p_pipe1)>>]
          /\ UNCHANGED p_pipe2
       \/ /\ p_abuild.buf = <<>> /\ p_pipe1 = <<>> /\ p_tar.st = "exited"
          /\ \E st \in {0, 1} : p_abuild' = [p_abuild EXCEPT !.st = "exited", !.status = st]
          /\ UNCHANGED <<p_pipe1, p_pipe2>>
    /\ UNCHANGED <<p_pc, p_tar, p_gzip, p_pipe3, p_read, p_waited, locVars, mainVars>>

\* gzip -n -9: compress each block read, exit at end-of-file.  Its stdout is
\* read by the parent for as long as gzip runs.
GzipStep ==
    /\ p_gzip.st = "run"
    /\ \/ /\ p_gzip.buf # <<>> /\ Len(p_pipe3) < PipeCap
          /\ p_pipe3' = Append(p_pipe3, "z")
          /\ p_gzip' = [p_gzip EXCEPT !.buf = <<>>]
          /\ UNCHANGED p_pipe2
       \/ /\ p_gzip.buf = <<>> /\ p_pipe2 # <<>>
          /\ p_pipe2' = Tail(p_pipe2)
          /\ p_gzip' = [p_gzip EXCEPT !.buf = <<Head(p_pipe2)>>]
          /\ UNCHANGED p_pipe3
       \/ /\ p_gzip.buf = <<>> /\ p_pipe2 = <<>> /\ p_abuild.st = "exited"
          /\ \E st \in {0, 1} : p_gzip' = [p_gzip EXCEPT !.st = "exited", !.status = st]
          /\ UNCHANGED <<p_pipe2, p_pipe3>>
    /\ UNCHANGED <<p_pc, p_tar, p_abuild, p_pipe1, p_read, p_waited, locVars, mainVars>>

\* a stage that dies before it is done (no fairness: it need not happen).
\* Status 2 stands for a stage killed or dying early, 1 for one that read all
\* its input and then reported failure.
StageDies ==
    /\ \/ /\ p_tar.st = "run"
          /\ p_tar' = [p_tar EXCEPT !.st = "exited", !.status = 2]
          /\ UNCHANGED <<p_abuild, p_gzip>>
       \/ /\ p_abuild.st = "run"
          /\ p_abuild' = [p_abuild EXCEPT !.st = "exited", !.status = 2]
          /\ UNCHANGED <<p_tar, p_gzip>>
       \/ /\ p_gzip.st = "run"
          /\ p_gzip' = [p_gzip EXCEPT !.st = "exited", !.status = 2]
          /\ UNCHANGED <<p_tar, p_abuild>>
    /\ UNCHANGED <<p_pc, p_pipe1, p_pipe2, p_pipe3, p_read, p_waited, locVars, mainVars>>

PipeNext ==
    \/ PSpawnTar \/ PSpawnAbuild \/ PSpawnGzip \/ PDrain \/ PGzipEof
    \/ PWaitAbuild \/ PWaitTar \/ TarStep \/ AbuildStep \/ GzipStep \/ StageDies

\* The parent and every stage that can take a step eventually takes one: the
\* processes are scheduled by the operating system.
PipeSpec ==
    /\ PipeInit /\ [][PipeNext]_vars
    /\ WF_vars(PSpawnTar) /\ WF_vars(PSpawnAbuild) /\ WF_vars(PSpawnGzip)
    /\ WF_vars(PDrain) /\ WF_vars(PGzipEof) /\ WF_vars(PWaitAbuild) /\ WF_vars(PWaitTar)
    /\ WF_vars(TarStep) /\ WF_vars(AbuildStep) /\ WF_vars(GzipStep)

PFinished == p_pc \in {"joined", "failed"}
PStagesGone ==
    \A c \in {p_tar, p_abuild, p_gzip} : c.st \in {"none", "nospawn", "exited"}

\* every stage was spawned, read its input to the end and exited by itself
PStagesRanToEnd ==
    \A c \in {p_tar, p_abuild, p_gzip} : c.st = "exited" /\ c.status \in {0, 1}

\* C10 as claimed: when each stage keeps consuming its input and exits, the
\* parent ends up holding all three exit statuses.
C10_ParentHoldsAllStatuses ==
    (PFinished /\ PStagesRanToEnd) => p_waited = Stages

\* C10 amended: the pipeline cannot deadlock: whatever the size of the
\* fragment and the capacity of the pipes, every stage eventually exits and
\* the parent eventually is done with the pipeline, holding all three exit
\* statuses, all zero, with gzip's output read to the end, or having returned
\* at a failed spawn or at the first non-zero status in the order gzip,
\* abuild-tar, tar, without waiting for the stages after it.
C10_PipelineFinishes ==
    /\ <>(PFinished /\ PStagesGone)
    /\ [](p_pc = "joined" =>
            /\ p_waited = Stages
            /\ \A c \in {p_tar, p_abuild, p_gzip} : c.st = "exited" /\ c.status = 0
            /\ p_pipe1 = <<>> /\ p_pipe2 = <<>> /\ p_pipe3 = <<>>)
    /\ [](p_pc = "failed" =>
            \/ \E c \in {p_tar, p_abuild, p_gzip} : c.st = "nospawn"
            \/ p_waited = {"gzip"} /\ p_gzip.status # 0
            \/ p_waited = {"gzip", "abuild-tar"} /\ p_gzip.status = 0 /\ p_abuild.status # 0
            \/ p_waited = Stages /\ p_gzip.status = 0 /\ p_abuild.status = 0
                                 /\ p_tar.status # 0)

C10_Witness ==
    /\ p_pc = "joined"
    /\ p_waited = Stages
    /\ p_read > PipeCap

(***************************************************************************)
(* Properties of the locator (checked under LocateSpec)                    *)
(***************************************************************************)
\* the tar stream the Decoder hands to Archive for the file of l_cmd
LStream == Decoder(l_cmd.file.bytes).stream

\* the number of entries before the archive ends (end of stream or zero block)
LEntryCount ==
    IF \E i \in 1..Len(LStream) : LStream[i].t = "eoa"
    THEN (CHOOSE i \in 1..Len(LStream) :
            /\ LStream[i].t = "eoa"
            /\ \A j \in 1..(i - 1) : LStream[j].t # "eoa") - 1
    ELSE Len(LStream)

LWellFormed ==
    /\ l_cmd.file.exists
    /\ Decoder(l_cmd.file.bytes).ok
    /\ \A i \in 1..LEntryCount : LStream[i].t = "entry"

Least(S) == CHOOSE i \in S : \A j \in S : i <= j

\* entries whose path bytes begin with .SIGN.
LPrefixed == {i \in 1..LEntryCount : StartsWith(LStream[i].name, SIGN_PREFIX)}

\* entries whose path is text (valid UTF-8) and begins with .SIGN.
LTextPrefixed == {i \in LPrefixed : BadByte \notin Range(LStream[i].name)}

LFirstOf(S) ==
    IF S = {} THEN Err("No signature found in APKINDEX.tar.gz")
    ELSE Ok(LStream[Least(S)].name, LStream[Least(S)].data)

\* C4 as claimed: read_index returns the first entry whose path begins with
\* .SIGN., and fails with not-found exactly when no entry's path does.
C4_FirstPrefixedEntry ==
    (l_pc = "ret" /\ l_cmd.kind = "FromIndex" /\ LWellFormed)
        => l_res = LFirstOf(LPrefixed)

\* C4 amended: read_index returns the name and full content of the first
\* entry of the decoded stream whose path is valid UTF-8 and begins with
\* .SIGN., also when several qualify; entries before it are skipped; it fails
\* with not-found exactly when the stream ends without such an entry.
C4_FirstTextPrefixedEntry ==
    (l_pc = "ret" /\ l_cmd.kind = "FromIndex" /\ LWellFormed)
        => l_res = LFirstOf(LTextPrefixed)

C4_Witness ==
    /\ l_pc = "ret" /\ l_cmd.kind = "FromIndex" /\ LWellFormed
    /\ l_res.ok
    /\ Cardinality(LTextPrefixed) >= 2
    /\ Least(LTextPrefixed) = 2
    /\ LStream[Least(LTextPrefixed)].data # LStream[3].data

LNeedle == Needle(l_cmd.arch)

\* entries whose path is the needle, byte for byte
LStringMatches == {i \in 1..LEntryCount : LStream[i].name = LNeedle}

\* entries whose path has the needle's components
LPathMatches ==
    {i \in 1..LEntryCount : Components(LStream[i].name) = Components(LNeedle)}

LDelegatedTo(S) ==
    IF S = {} THEN Err("Index not found in image")
    ELSE ReadIndex(LStream[Least(S)].data)

\* C5 as claimed: read_image hands an entry to the index scan exactly when
\* its path string is ./apks/<arch>/APKINDEX.tar.gz byte for byte, and fails
\* with not-found when no entry is.
C5_DelegatesOnExactString ==
    (l_pc = "ret" /\ l_cmd.kind = "FromImage" /\ LWellFormed)
        => l_res = LDelegatedTo(LStringMatches)

\* C5 amended: read_image hands to the index scan the first entry whose path
\* equals ./apks/<arch>/APKINDEX.tar.gz as a Path, component by component
\* (repeated slashes, interior "." segments and a trailing slash make no
\* difference; a missing leading "./" or a leading "/" does), and fails with
\* not-found when the stream ends without one.
C5_DelegatesOnPathEquality ==
    (l_pc = "ret" /\ l_cmd.kind = "FromImage" /\ LWellFormed)
        => l_res = LDelegatedTo(LPathMatches)

C5_Witness ==
    /\ l_pc = "ret" /\ l_cmd.kind = "FromImage" /\ LWellFormed
    /\ l_res.ok
    /\ LStringMatches = {}
    /\ Least(LPathMatches) = 2

====
